---- MODULE Spec2Model ----
(***************************************************************************)
(* The ECU gateway of src/gateway.c as a state machine: socket setup, the  *)
(* connect-with-retry loop, and the bridge loop that reassembles 5-byte    *)
(* sensor packets from the TCP stream, validates them, classifies the      *)
(* reading and forwards a 13-byte frame over UDP.  The upstream packet     *)
(* encoding is taken from src/mock_sensor.c and src/n_mock_sensor.c.       *)
(*                                                                         *)
(* One step of the model runs the program from the return of one blocking  *)
(* call (socket, connect, recv, sendto) up to the next one; validation     *)
(* and encoding, which sit between recv and sendto, are steps of their own *)
(* so that the window handed to the validator is observable.               *)
(***************************************************************************)
EXTENDS Integers, Sequences, FiniteSets, TLC

Last(s) == s[Len(s)]

(***************************************************************************)
(* Program constants.                                                      *)
(***************************************************************************)
SYNC == 170
STATUS_OK == 0
STATUS_WARN_LOW_VOLT == 1
STATUS_CRIT_TEMP == 2
PACKET_LEN == 5
CAN_ID == 256
DLC == 8
TEMP_LIMIT == 60
VOLT_LIMIT == 3100

(***************************************************************************)
(* Bounds of the model.                                                    *)
(***************************************************************************)
\* packets the upstream peer has queued on the stream in the general runs
NumPackets == 2
\* failed connect() calls before the model stops adding more
MaxConnectFails == 1

VARIABLES
    pc,            \* where main() is: the blocking call it is about to make
    socks,         \* the sockets that are open
    connect_fails, \* failed connect() calls so far
    sensor,        \* what the upstream peer encoded: one record per packet
    stream,        \* the bytes the TCP peer delivers, in order
    pos,           \* how many of them recv has consumed
    buffer,        \* unsigned char buffer[5]
    bytes_read,    \* int bytes_read
    result,        \* int result, the last return value of recv
    reads,         \* recv calls that returned in the current reassembly
    reading,       \* the locals volt_hi, volt_lo, temp, voltage_mv, status
    frame,         \* fake_can_frame_t frame
    tx,            \* the sendto calls made: the datagram and whether it went out
    log,           \* what was printed, one entry per printf/perror
    exit_status    \* the value main returned, -1 while it runs

vars == <<pc, socks, connect_fails, sensor, stream, pos, buffer, bytes_read,
          result, reads, reading, frame, tx, log, exit_status>>

(***************************************************************************)
(* Byte helpers.                                                           *)
(***************************************************************************)
Pow2(k) == IF k = 0 THEN 1 ELSE IF k = 1 THEN 2 ELSE IF k = 2 THEN 4
           ELSE IF k = 3 THEN 8 ELSE IF k = 4 THEN 16 ELSE IF k = 5 THEN 32
           ELSE IF k = 6 THEN 64 ELSE 128

\* b with bit k inverted
FlipBit(b, k) == IF (b \div Pow2(k)) % 2 = 1 THEN b - Pow2(k) ELSE b + Pow2(k)

(***************************************************************************)
(* The upstream encoders.                                                  *)
(***************************************************************************)
\* mock_sensor.c: buffer[0..4] from voltage_mv and temp_c
MockPacket(voltage_mv, temp_c) ==
    LET b1 == (voltage_mv \div 256) % 256
        b2 == voltage_mv % 256
        b3 == temp_c
    IN  <<170, b1, b2, b3, (170 + b1 + b2 + b3) % 256>>

\* n_mock_sensor.c: the same layout, the checksum summed from buffer[0]
NMockPacket(voltage_mv, temp_c) ==
    LET b0 == 170
        b1 == (voltage_mv \div 256) % 256
        b2 == voltage_mv % 256
        b3 == temp_c
    IN  <<b0, b1, b2, b3, (b0 + b1 + b2 + b3) % 256>>

(***************************************************************************)
(* The gateway's pure parts.                                               *)
(***************************************************************************)
\* faulty variant: every read asks for a whole packet
RecvLenWhole(br) == PACKET_LEN

\* the third argument of recv: how many bytes one read asks for
RecvLen(br) == PACKET_LEN - br

\* buffer[0] != 0xAA
SyncBad(buf) == buf[1] # SYNC

\* faulty variant: the sum is not cut to eight bits
CalcCsNoWrap(volt_hi, volt_lo, temp) == SYNC + volt_hi + volt_lo + temp

\* unsigned char calc_cs = (0xAA + volt_hi + volt_lo + temp) & 0xFF
CalcCs(volt_hi, volt_lo, temp) == (SYNC + volt_hi + volt_lo + temp) % 256

\* faulty variant: the checksum is never compared
ChecksumBadNever(buf) == FALSE

\* calc_cs != rx_cs
ChecksumBad(buf) == CalcCs(buf[2], buf[3], buf[4]) # buf[5]

\* faulty variant: the two voltage bytes are composed low byte first
VoltageMvLittle(volt_hi, volt_lo) == (volt_lo * 256 + volt_hi) % 65536

\* uint16_t voltage_mv = (volt_hi << 8) | volt_lo
VoltageMv(volt_hi, volt_lo) == (volt_hi * 256 + volt_lo) % 65536

\* faulty variant: the voltage test comes first
ClassifyVoltageFirst(voltage_mv, temp) ==
    IF voltage_mv < VOLT_LIMIT THEN STATUS_WARN_LOW_VOLT
    ELSE IF temp > TEMP_LIMIT THEN STATUS_CRIT_TEMP
    ELSE STATUS_OK

\* faulty variant: the voltage limit itself counts as low
ClassifyInclusive(voltage_mv, temp) ==
    IF temp > TEMP_LIMIT THEN STATUS_CRIT_TEMP
    ELSE IF voltage_mv <= VOLT_LIMIT THEN STATUS_WARN_LOW_VOLT
    ELSE STATUS_OK

\* the safety logic: temperature first, then voltage
Classify(voltage_mv, temp) ==
    IF temp > TEMP_LIMIT THEN STATUS_CRIT_TEMP
    ELSE IF voltage_mv < VOLT_LIMIT THEN STATUS_WARN_LOW_VOLT
    ELSE STATUS_OK

\* faulty variant: the reserved bytes are not cleared
EncodeFrameNoMemset(f, volt_hi, volt_lo, temp, status) ==
    [can_id |-> CAN_ID,
     dlc    |-> DLC,
     data   |-> <<volt_hi, volt_lo, temp, status>> \o SubSeq(f.data, 5, 8)]

\* faulty variant: a critical status left in the reused struct is kept
EncodeFrameSticky(f, volt_hi, volt_lo, temp, status) ==
    [can_id |-> CAN_ID,
     dlc    |-> DLC,
     data   |-> <<volt_hi, volt_lo, temp,
                  IF f.data[4] = STATUS_CRIT_TEMP THEN STATUS_CRIT_TEMP ELSE status,
                  0, 0, 0, 0>>]

\* the assignments to frame: id, dlc, data[0..3], memset of data[4..7]
EncodeFrame(f, volt_hi, volt_lo, temp, status) ==
    [can_id |-> CAN_ID,
     dlc    |-> DLC,
     data   |-> <<volt_hi, volt_lo, temp, status, 0, 0, 0, 0>>]

\* the bytes of the packed struct as sendto reads them (little-endian host)
Serialize(f) ==
    << f.can_id % 256, (f.can_id \div 256) % 256,
       (f.can_id \div 65536) % 256, (f.can_id \div 16777216) % 256,
       f.dlc >> \o f.data

(***************************************************************************)
(* The upstream peer.  A packet on the wire is what a sensor encoded from  *)
(* a reading, with some of its five bytes possibly replaced on the way:    *)
(* damage[i] is -1 for a byte that arrives as encoded, else the byte that  *)
(* arrives in its place.                                                   *)
(***************************************************************************)
NoDamage == <<-1, -1, -1, -1, -1>>

Encoded(d) == IF d.enc = "mock" THEN MockPacket(d.voltage_mv, d.temp_c)
              ELSE NMockPacket(d.voltage_mv, d.temp_c)

Wire(d) == [i \in 1..PACKET_LEN |->
              IF d.damage[i] = -1 THEN Encoded(d)[i] ELSE d.damage[i]]

RECURSIVE WireAll(_)
WireAll(ds) == IF ds = <<>> THEN <<>> ELSE Wire(Head(ds)) \o WireAll(Tail(ds))

\* the damage that replaces byte i alone by b
Replace(i, b) == [j \in 1..PACKET_LEN |-> IF j = i THEN b ELSE -1]

\* the damage that inverts bit k of byte i of packet p
BitFlip(p, i, k) == Replace(i, FlipBit(p[i], k))

(***************************************************************************)
(* Initial states.                                                         *)
(***************************************************************************)
\* what an uninitialised byte of the stack may hold
GarbageVals == {0, 204}

NoReading == [volt_hi |-> 0, volt_lo |-> 0, temp |-> 0, voltage_mv |-> 0, status |-> 0]

Banner == << <<"rule">>, <<"starting">>, <<"mode">>, <<"rule">> >>

InitWith(sensors, garbage) ==
    /\ pc = "udp_socket"
    /\ socks = {}
    /\ connect_fails = 0
    /\ sensor \in sensors
    /\ stream = WireAll(sensor)
    /\ pos = 0
    /\ \E g \in garbage :
          /\ buffer = [i \in 1..PACKET_LEN |-> g]
          /\ frame = [can_id |-> g * 65793, dlc |-> g,
                      data |-> [i \in 1..8 |-> g]]
    /\ bytes_read = 0
    /\ result = 0
    /\ reads = 0
    /\ reading = NoReading
    /\ tx = <<>>
    /\ log = Banner
    /\ exit_status = -1

\* the packets of the general runs: readings on both sides of both
\* thresholds, each as encoded and with its checksum byte replaced by 0x07,
\* and one reading with a wrong sync byte, with and without a wrong checksum
SampleReadings == {<<3099, 45>>, <<3100, 45>>, <<3099, 61>>, <<3100, 61>>}

SamplePackets ==
    {[enc |-> "mock", voltage_mv |-> r[1], temp_c |-> r[2], damage |-> dm] :
        r \in SampleReadings, dm \in {NoDamage, Replace(5, 7)}}
    \cup
    {[enc |-> "n_mock", voltage_mv |-> 3100, temp_c |-> 45, damage |-> dm] :
        dm \in {Replace(1, 85), <<85, -1, -1, -1, 7>>}}

RECURSIVE Sensors(_)
Sensors(n) == IF n = 0 THEN {<<>>}
              ELSE {<<d>> \o s : d \in SamplePackets, s \in Sensors(n - 1)}

Init == InitWith(Sensors(NumPackets), GarbageVals)

\* the single-packet runs: one reading from a wide set, sent once as encoded
\* and once more with one bit of one of its five bytes inverted
WideVoltages == {0, 255, 3071, 3099, 3100, 3101, 3328, 65535}
WideTemps == {0, 60, 61, 255}

FlippedPairs ==
    {LET clean == [enc |-> e, voltage_mv |-> v, temp_c |-> t, damage |-> NoDamage]
     IN  <<clean, [clean EXCEPT !.damage = BitFlip(Encoded(clean), i, k)]>> :
        e \in {"mock", "n_mock"}, v \in WideVoltages, t \in WideTemps,
        i \in 1..PACKET_LEN, k \in 0..7}

InitPacket == InitWith(FlippedPairs, {204})

(***************************************************************************)
(* Socket setup and the connect loop.                                      *)
(***************************************************************************)
\* what no step before the bridge loop touches
SetupUnchanged ==
    UNCHANGED <<sensor, stream, pos, buffer, bytes_read, result, reads,
                reading, frame, tx>>

UdpSocketFail ==
    /\ pc = "udp_socket"
    /\ log' = Append(log, <<"perror udp socket">>)
    /\ exit_status' = 1
    /\ pc' = "done"
    /\ UNCHANGED <<socks, connect_fails>>
    /\ SetupUnchanged

UdpSocketOk ==
    /\ pc = "udp_socket"
    /\ socks' = socks \cup {"udp"}
    /\ log' = Append(log, <<"can bus ready">>)
    /\ pc' = "tcp_socket"
    /\ UNCHANGED <<connect_fails, exit_status>>
    /\ SetupUnchanged

TcpSocketFail ==
    /\ pc = "tcp_socket"
    /\ log' = Append(log, <<"perror tcp socket">>)
    /\ exit_status' = 1
    /\ pc' = "done"
    /\ UNCHANGED <<socks, connect_fails>>
    /\ SetupUnchanged

TcpSocketOk ==
    /\ pc = "tcp_socket"
    /\ socks' = socks \cup {"tcp"}
    /\ log' = Append(log, <<"connecting">>)
    /\ pc' = "connect"
    /\ UNCHANGED <<connect_fails, exit_status>>
    /\ SetupUnchanged

\* faulty variant: a refused connection ends the program
ConnectFailGiveUp ==
    /\ pc = "connect"
    /\ connect_fails < MaxConnectFails
    /\ connect_fails' = connect_fails + 1
    /\ log' = Append(log, <<"waiting">>)
    /\ exit_status' = 1
    /\ pc' = "done"
    /\ UNCHANGED socks
    /\ SetupUnchanged

\* connect() < 0: print, sleep(2), try again
ConnectFail ==
    /\ pc = "connect"
    /\ connect_fails < MaxConnectFails
    /\ connect_fails' = connect_fails + 1
    /\ log' = Append(log, <<"waiting">>)
    /\ UNCHANGED <<pc, socks, exit_status>>
    /\ SetupUnchanged

ConnectOk ==
    /\ pc = "connect"
    /\ log' = log \o << <<"connected">>, <<"starting bridge">> >>
    /\ pc' = "recv"
    /\ UNCHANGED <<socks, connect_fails, exit_status>>
    /\ SetupUnchanged

(***************************************************************************)
(* The bridge loop.                                                        *)
(***************************************************************************)
\* faulty variant: a read that comes back starts the packet over
RecvDataRestart ==
    /\ pc = "recv"
    /\ \E n \in 1..RecvLen(bytes_read) :
          /\ pos + n <= Len(stream)
          /\ result' = n
          /\ buffer' = [i \in 1..PACKET_LEN |->
                          IF i <= n THEN stream[pos + i] ELSE buffer[i]]
          /\ pos' = pos + n
          /\ bytes_read' = n
          /\ pc' = IF n < PACKET_LEN THEN "recv" ELSE "validate"
    /\ reads' = reads + 1
    /\ UNCHANGED <<socks, connect_fails, sensor, stream, reading, frame, tx,
                   log, exit_status>>

\* recv returned n > 0 bytes, written at buffer + bytes_read
RecvData ==
    /\ pc = "recv"
    /\ \E n \in 1..RecvLen(bytes_read) :
          /\ pos + n <= Len(stream)
          /\ result' = n
          /\ buffer' = [i \in 1..PACKET_LEN |->
                          IF bytes_read < i /\ i <= bytes_read + n
                          THEN stream[pos + (i - bytes_read)]
                          ELSE buffer[i]]
          /\ pos' = pos + n
          /\ bytes_read' = bytes_read + n
          /\ pc' = IF bytes_read + n < PACKET_LEN THEN "recv" ELSE "validate"
    /\ reads' = reads + 1
    /\ UNCHANGED <<socks, connect_fails, sensor, stream, reading, frame, tx,
                   log, exit_status>>

\* faulty variant: a failed read is reported and the read is tried again
RecvLostRetry ==
    /\ pc = "recv"
    /\ \E r \in {0, -1} : result' = r
    /\ reads' = reads + 1
    /\ log' = Append(log, <<"disconnected">>)
    /\ UNCHANGED <<pc, socks, connect_fails, sensor, stream, pos, buffer,
                   bytes_read, reading, frame, tx, exit_status>>

\* recv returned 0 (the peer closed) or -1 (an error): report, close, return 1
RecvLost ==
    /\ pc = "recv"
    /\ \E r \in {0, -1} : result' = r
    /\ reads' = reads + 1
    /\ log' = Append(log, <<"disconnected">>)
    /\ socks' = socks \ {"tcp", "udp"}
    /\ exit_status' = 1
    /\ pc' = "done"
    /\ UNCHANGED <<connect_fails, sensor, stream, pos, buffer, bytes_read,
                   reading, frame, tx>>

\* `continue`: the next pass of the outer loop starts with bytes_read = 0
NextCycle ==
    /\ bytes_read' = 0
    /\ result' = 0
    /\ reads' = 0
    /\ pc' = "recv"

\* faulty variant: a wrong sync byte ends the program
SyncErrorFatal ==
    /\ pc = "validate"
    /\ SyncBad(buffer)
    /\ log' = Append(log, <<"sync error", buffer[1]>>)
    /\ socks' = {}
    /\ exit_status' = 1
    /\ pc' = "done"
    /\ UNCHANGED <<connect_fails, sensor, stream, pos, buffer, bytes_read,
                   result, reads, reading, frame, tx>>

\* faulty variant: a wrong sync byte drops one byte and keeps the other four
SyncErrorSlide ==
    /\ pc = "validate"
    /\ SyncBad(buffer)
    /\ log' = Append(log, <<"sync error", buffer[1]>>)
    /\ buffer' = Tail(buffer) \o <<buffer[PACKET_LEN]>>
    /\ bytes_read' = PACKET_LEN - 1
    /\ result' = 0
    /\ reads' = 0
    /\ pc' = "recv"
    /\ UNCHANGED <<socks, connect_fails, sensor, stream, pos, reading, frame,
                   tx, exit_status>>

SyncError ==
    /\ pc = "validate"
    /\ SyncBad(buffer)
    /\ log' = Append(log, <<"sync error", buffer[1]>>)
    /\ NextCycle
    /\ UNCHANGED <<socks, connect_fails, sensor, stream, pos, buffer,
                   reading, frame, tx, exit_status>>

\* faulty variant: a checksum failure drops one byte and keeps the other four
ChecksumErrorSlide ==
    /\ pc = "validate"
    /\ ~SyncBad(buffer)
    /\ ChecksumBad(buffer)
    /\ log' = Append(log, <<"checksum mismatch">>)
    /\ buffer' = Tail(buffer) \o <<buffer[PACKET_LEN]>>
    /\ bytes_read' = PACKET_LEN - 1
    /\ result' = 0
    /\ reads' = 0
    /\ pc' = "recv"
    /\ UNCHANGED <<socks, connect_fails, sensor, stream, pos, reading, frame,
                   tx, exit_status>>

\* faulty variant: the checksum is compared whatever the sync byte was
ChecksumErrorFirst ==
    /\ pc = "validate"
    /\ ChecksumBad(buffer)
    /\ log' = Append(log, <<"checksum mismatch">>)
    /\ NextCycle
    /\ UNCHANGED <<socks, connect_fails, sensor, stream, pos, buffer,
                   reading, frame, tx, exit_status>>

ChecksumError ==
    /\ pc = "validate"
    /\ ~SyncBad(buffer)
    /\ ChecksumBad(buffer)
    /\ log' = Append(log, <<"checksum mismatch">>)
    /\ NextCycle
    /\ UNCHANGED <<socks, connect_fails, sensor, stream, pos, buffer,
                   reading, frame, tx, exit_status>>

\* a valid window: compose the voltage, classify, fill the frame
Encode ==
    /\ pc = "validate"
    /\ ~SyncBad(buffer)
    /\ ~ChecksumBad(buffer)
    /\ LET volt_hi    == buffer[2]
           volt_lo    == buffer[3]
           temp       == buffer[4]
           voltage_mv == VoltageMv(volt_hi, volt_lo)
           status     == Classify(voltage_mv, temp)
       IN  /\ reading' = [volt_hi |-> volt_hi, volt_lo |-> volt_lo,
                          temp |-> temp, voltage_mv |-> voltage_mv,
                          status |-> status]
           /\ frame' = EncodeFrame(frame, volt_hi, volt_lo, temp, status)
    /\ pc' = "send"
    /\ UNCHANGED <<socks, connect_fails, sensor, stream, pos, buffer,
                   bytes_read, result, reads, tx, log, exit_status>>

\* what follows sendto whatever it returned: the status line, the next cycle
AfterSend ==
    /\ log' = Append(log, <<"rx->tx", reading.voltage_mv, reading.temp,
                            reading.status>>)
    /\ reading' = NoReading
    /\ NextCycle

\* faulty variant: the frame goes out twice
SendOkTwice ==
    /\ pc = "send"
    /\ tx' = tx \o << [bytes |-> Serialize(frame), ok |-> TRUE],
                      [bytes |-> Serialize(frame), ok |-> TRUE] >>
    /\ AfterSend
    /\ UNCHANGED <<socks, connect_fails, sensor, stream, pos, buffer, frame,
                   exit_status>>

SendOk ==
    /\ pc = "send"
    /\ tx' = Append(tx, [bytes |-> Serialize(frame), ok |-> TRUE])
    /\ AfterSend
    /\ UNCHANGED <<socks, connect_fails, sensor, stream, pos, buffer, frame,
                   exit_status>>

\* faulty variant: a failed sendto ends the program
SendFailFatal ==
    /\ pc = "send"
    /\ tx' = Append(tx, [bytes |-> Serialize(frame), ok |-> FALSE])
    /\ log' = Append(log, <<"perror sendto">>)
    /\ socks' = {}
    /\ exit_status' = 1
    /\ pc' = "done"
    /\ UNCHANGED <<connect_fails, sensor, stream, pos, buffer, bytes_read,
                   result, reads, reading, frame>>

\* faulty variant: after a failed sendto the status line is left out
SendFailQuiet ==
    /\ pc = "send"
    /\ tx' = Append(tx, [bytes |-> Serialize(frame), ok |-> FALSE])
    /\ reading' = NoReading
    /\ NextCycle
    /\ UNCHANGED <<socks, connect_fails, sensor, stream, pos, buffer, frame,
                   log, exit_status>>

\* sendto returned -1: the return value is not looked at
SendFail ==
    /\ pc = "send"
    /\ tx' = Append(tx, [bytes |-> Serialize(frame), ok |-> FALSE])
    /\ AfterSend
    /\ UNCHANGED <<socks, connect_fails, sensor, stream, pos, buffer, frame,
                   exit_status>>

Next ==
    \/ UdpSocketFail
    \/ UdpSocketOk
    \/ TcpSocketFail
    \/ TcpSocketOk
    \/ ConnectFail
    \/ ConnectOk
    \/ RecvData
    \/ RecvLost
    \/ SyncError
    \/ ChecksumError
    \/ Encode
    \/ SendOk
    \/ SendFail

Spec == Init /\ [][Next]_vars

SpecPacket == InitPacket /\ [][Next]_vars

(***************************************************************************)
(* What the claims speak of.                                               *)
(***************************************************************************)
\* the k-th 5-byte window of the stream
WindowAt(k) == SubSeq(stream, PACKET_LEN * (k - 1) + 1, PACKET_LEN * k)

\* a window that has the sync byte and the checksum of its three payload bytes
Passes(w) == w[1] = 170 /\ w[5] = (170 + w[2] + w[3] + w[4]) % 256

\* how many windows have been read whole and dealt with
Decided == (pos \div PACKET_LEN) - (IF pc \in {"validate", "send"} THEN 1 ELSE 0)

PassedSoFar == {k \in 1..Decided : Passes(WindowAt(k))}

\* the line the k-th cycle printed: each finished cycle prints exactly one
BridgeStart == {i \in DOMAIN log : log[i][1] = "starting bridge"}
Outcome(k) ==
    IF \E i \in BridgeStart : i + k <= Len(log)
    THEN log[(CHOOSE i \in BridgeStart : TRUE) + k][1]
    ELSE "none"

FailedSends == {j \in DOMAIN tx : ~tx[j].ok}

(***************************************************************************)
(* C1: a frame is handed to sendto in a cycle exactly when the window of   *)
(* that cycle has byte 0 = 0xAA and byte 4 = (0xAA + b1 + b2 + b3) mod     *)
(* 256; after any number of windows the frames sent are as many as the     *)
(* windows that passed both checks.                                        *)
(***************************************************************************)
C1_SentIffValid ==
    /\ Len(tx) = Cardinality(PassedSoFar)
    /\ pc = "send" => Passes(WindowAt(pos \div PACKET_LEN))
    /\ \A k \in 1..Decided : Outcome(k) = "rx->tx" <=> Passes(WindowAt(k))

C1_Witness ==
    /\ Decided = 2
    /\ Len(tx) = 1
    /\ ~Passes(WindowAt(1))
    /\ Passes(WindowAt(2))

(***************************************************************************)
(* C2: however the five bytes of a packet are split over reads, the        *)
(* reassembly loop puts them in the buffer in stream order and the         *)
(* validator gets exactly that packet; the count never passes 5 and the    *)
(* bytes consumed never reach into the next packet.                        *)
(***************************************************************************)
C2_Reassembly ==
    /\ bytes_read \in 0..PACKET_LEN
    /\ pc = "recv" => bytes_read < PACKET_LEN
    /\ pc \in {"recv", "validate", "send"} =>
          /\ (pos - bytes_read) % PACKET_LEN = 0
          /\ \A i \in 1..bytes_read : buffer[i] = stream[pos - bytes_read + i]
    /\ pc = "validate" =>
          /\ bytes_read = PACKET_LEN
          /\ buffer = Wire(sensor[pos \div PACKET_LEN])
          /\ reads \in 1..PACKET_LEN

C2_Witness ==
    /\ pc = "validate"
    /\ pos = 2 * PACKET_LEN
    /\ reads = 3
    /\ result = 2
    /\ buffer = WindowAt(2)
    /\ WindowAt(2) # WindowAt(1)

(***************************************************************************)
(* C3: a read that returns 0 or less, at any point of a cycle, ends the    *)
(* program with exit status 1: the read is not retried, nothing can happen *)
(* afterwards, and the frames sent are those of the whole windows that     *)
(* passed before it - the partial window is never forwarded.               *)
(***************************************************************************)
C3_LinkLostFinal ==
    (reads > 0 /\ result <= 0) =>
        /\ pc = "done"
        /\ exit_status = 1
        /\ socks = {}
        /\ Last(log) = <<"disconnected">>
        /\ Len(tx) = Cardinality(PassedSoFar)
        /\ ~ ENABLED Next

C3_Witness ==
    /\ pc = "done"
    /\ result = 0
    /\ bytes_read = 3
    /\ pos = PACKET_LEN + 3
    /\ Len(tx) = 1

(***************************************************************************)
(* C4: the status of a validated reading is 0x02 exactly when its          *)
(* temperature is above 60, else 0x01 exactly when its voltage is below    *)
(* 3100, else 0x00: temperature wins when both limits are broken, 60 is    *)
(* not critical and 3100 is not low.                                       *)
(***************************************************************************)
C4_Classification ==
    pc = "send" =>
        LET v == buffer[2] * 256 + buffer[3]
            t == buffer[4]
            s == reading.status
        IN  /\ v \in 0..65535 /\ t \in 0..255
            /\ s = 2 <=> t > 60
            /\ s = 1 <=> (t <= 60 /\ v < 3100)
            /\ s = 0 <=> (t <= 60 /\ v >= 3100)
            /\ frame.data[4] = s

C4_Witness ==
    /\ pc = "send"
    /\ buffer[4] > 60
    /\ buffer[2] * 256 + buffer[3] < 3100
    /\ reading.status = 2
    /\ frame.data[4] = 2

(***************************************************************************)
(* C5, as the spec states it: the window AA 0C 1C 2D 07 validates, is      *)
(* classified Ok and is forwarded with payload 0C 1C 2D 00 00 00 00 00.    *)
(***************************************************************************)
C5_Window == <<170, 12, 28, 45, 7>>
C5_Payload == <<12, 28, 45, 0, 0, 0, 0, 0>>

C5_AsStated ==
    (Decided >= 1 /\ WindowAt(1) = C5_Window) =>
        /\ Len(tx) >= 1
        /\ SubSeq(tx[1].bytes, 6, 13) = C5_Payload

(***************************************************************************)
(* C5, amended: the checksum of AA 0C 1C 2D is 0xFF, not 0x07.  The window *)
(* AA 0C 1C 2D FF (3100 mV, 45 degrees) validates, is classified Ok and is *)
(* forwarded as one frame with payload 0C 1C 2D 00 00 00 00 00; the window *)
(* AA 0C 1C 2D 07 fails the checksum check and no frame is sent for it.    *)
(***************************************************************************)
C5_FixedWindow == <<170, 12, 28, 45, 255>>

C5_Amended ==
    /\ (pc = "validate" /\ buffer \in {C5_Window, C5_FixedWindow}) =>
           CalcCs(buffer[2], buffer[3], buffer[4]) = 255
    /\ (Decided >= 1 /\ WindowAt(1) = C5_FixedWindow) =>
           /\ Outcome(1) = "rx->tx"
           /\ Len(tx) >= 1
           /\ SubSeq(tx[1].bytes, 6, 13) = C5_Payload
           /\ Decided = 1 => Len(tx) = 1
    /\ (pc = "send" /\ pos = PACKET_LEN /\ WindowAt(1) = C5_FixedWindow) =>
           /\ reading.voltage_mv = 3100 /\ reading.temp = 45
           /\ reading.status = 0
    /\ (Decided >= 1 /\ WindowAt(1) = C5_Window) =>
           /\ Outcome(1) = "checksum mismatch"
           /\ Decided = 1 => tx = <<>>

C5_Witness ==
    /\ Decided = 1
    /\ WindowAt(1) = C5_FixedWindow
    /\ Len(tx) = 1
    /\ SubSeq(tx[1].bytes, 6, 13) = C5_Payload

(***************************************************************************)
(* C6: a packet a sensor encoded, wrapped sum or not, passes the gateway's *)
(* sync and checksum checks and is forwarded; the same packet with one bit *)
(* of its voltage or temperature bytes inverted and the checksum byte as   *)
(* it was is rejected with a checksum mismatch.                            *)
(***************************************************************************)
PayloadFlip(d) ==
    \E i \in 2..4 :
        /\ d.damage[i] # -1
        /\ d.damage = Replace(i, d.damage[i])
        /\ \E k \in 0..7 : d.damage[i] = FlipBit(Encoded(d)[i], k)

C6_RoundTrip ==
    \A k \in 1..Decided :
        /\ sensor[k].damage = NoDamage =>
              /\ Outcome(k) = "rx->tx"
              /\ Len(tx) >= 1
        /\ PayloadFlip(sensor[k]) =>
              /\ WindowAt(k)[5] = Encoded(sensor[k])[5]
              /\ Outcome(k) = "checksum mismatch"
              /\ Len(tx) = Cardinality({m \in 1..Decided : sensor[m].damage = NoDamage})

C6_Witness ==
    /\ Decided = 2
    /\ sensor[1].damage = NoDamage
    /\ 170 + WindowAt(1)[2] + WindowAt(1)[3] + WindowAt(1)[4] > 255
    /\ PayloadFlip(sensor[2])
    /\ Len(tx) = 1
    /\ Outcome(2) = "checksum mismatch"

(***************************************************************************)
(* C7: when the stream starts with a packet whose checksum byte is wrong   *)
(* followed by a packet of the same voltage that is intact, in whatever    *)
(* chunks the bytes arrive, the first window is dropped whole, the second  *)
(* is read as bytes 6..10 and validates: the one frame produced comes      *)
(* after exactly 10 bytes and carries the second packet's temperature.     *)
(***************************************************************************)
ResyncStream ==
    /\ Len(sensor) >= 2
    /\ sensor[1].voltage_mv = sensor[2].voltage_mv
    /\ sensor[1].damage[1] = -1 /\ sensor[1].damage[5] # -1
    /\ ~Passes(Wire(sensor[1]))
    /\ sensor[2].damage = NoDamage

C7_ResyncLoss ==
    ResyncStream =>
        /\ Decided >= 1 => Outcome(1) = "checksum mismatch"
        /\ Decided < 2 => tx = <<>>
        /\ (pc = "validate" /\ Decided = 1) =>
              /\ pos = 2 * PACKET_LEN
              /\ buffer = Wire(sensor[2])
        /\ (pc = "send" /\ tx = <<>>) => pos = 2 * PACKET_LEN
        /\ Decided >= 2 =>
              /\ Outcome(2) = "rx->tx"
              /\ Len(tx) >= 1
              /\ tx[1].bytes[8] = sensor[2].temp_c
        /\ Decided = 2 => Len(tx) = 1

C7_Witness ==
    /\ ResyncStream
    /\ sensor[1].temp_c # sensor[2].temp_c
    /\ pos = 2 * PACKET_LEN
    /\ Decided = 2
    /\ Len(tx) = 1
    /\ tx[1].bytes[8] = sensor[2].temp_c

(***************************************************************************)
(* C8: every datagram handed to sendto is 13 bytes: the identifier 0x100   *)
(* in four bytes, the length byte 8, the voltage-high, voltage-low and     *)
(* temperature bytes of the window it was made from, a status code in      *)
(* {0, 1, 2}, and four zero bytes.                                         *)
(***************************************************************************)
\* the window the j-th frame was made from: the j-th one that passed
MadeFrom(j, k) ==
    /\ Passes(WindowAt(k))
    /\ Cardinality({m \in 1..k : Passes(WindowAt(m))}) = j

FrameLayout(b, w) ==
    /\ Len(b) = 13
    /\ b[1] + 256 * b[2] + 65536 * b[3] + 16777216 * b[4] = 256
    /\ b[5] = 8
    /\ b[6] = w[2] /\ b[7] = w[3] /\ b[8] = w[4]
    /\ b[9] \in {0, 1, 2}
    /\ b[10] = 0 /\ b[11] = 0 /\ b[12] = 0 /\ b[13] = 0

C8_FrameLayout ==
    /\ \A j \in DOMAIN tx :
          \E k \in 1..(Len(stream) \div PACKET_LEN) :
              MadeFrom(j, k) /\ FrameLayout(tx[j].bytes, WindowAt(k))
    /\ pc = "send" => FrameLayout(Serialize(frame), buffer)

C8_Witness ==
    /\ Len(tx) = 2
    /\ tx[1].bytes[9] = 2
    /\ tx[2].bytes[9] = 1
    /\ tx[1].bytes[6] * 256 + tx[1].bytes[7] = 3100

(***************************************************************************)
(* C9: a sendto that fails does not end the program: the loop goes on to   *)
(* the next cycle, every later window that passes is still handed to       *)
(* sendto, and the program ends only when a read returns 0 or less.        *)
(***************************************************************************)
C9_SendFailNonFatal ==
    FailedSends # {} =>
        /\ pc = "done" =>
              /\ reads > 0 /\ result <= 0
              /\ Last(log) = <<"disconnected">>
        /\ pc # "done" => exit_status = -1
        /\ \A k \in 1..Decided : Passes(WindowAt(k)) => Outcome(k) = "rx->tx"
        /\ Len(tx) = Cardinality(PassedSoFar)

C9_Witness ==
    /\ Len(tx) = 2
    /\ ~tx[1].ok
    /\ tx[2].ok
    /\ pc = "recv"

(***************************************************************************)
(* C10, as the spec states it: every sendto that fails leaves a failure    *)
(* line in the output, a line that a cycle whose send went through does    *)
(* not print.                                                              *)
(***************************************************************************)
\* the lines the program prints when no send fails
LinesWithoutSendFailure ==
    {"rule", "starting", "mode", "can bus ready", "connecting", "waiting",
     "connected", "starting bridge", "disconnected", "sync error",
     "checksum mismatch", "rx->tx", "perror udp socket", "perror tcp socket"}

C10_FailureLogged ==
    Cardinality({i \in DOMAIN log : log[i][1] \notin LinesWithoutSendFailure})
        >= Cardinality(FailedSends)

(***************************************************************************)
(* The engine's states, read off the program counter.                      *)
(***************************************************************************)
Connecting == pc = "connect"
Streaming == pc \in {"recv", "validate", "send"}
Terminated == pc = "done"

\* the program ended because a read returned 0 or less
LinkLost == Terminated /\ reads > 0 /\ result <= 0

(***************************************************************************)
(* C11, as the spec states it: the process ends only because a stream read *)
(* returned 0 or less, never because of anything else.                     *)
(***************************************************************************)
C11_AsStated == Terminated => LinkLost

(***************************************************************************)
(* C11, amended: once both sockets exist the engine is Connecting, then    *)
(* Streaming, and ends only when a stream read returns 0 or less; before   *)
(* Connecting a failed socket() also ends the process with status 1.  A    *)
(* window that fails the sync or checksum check sends the engine back to   *)
(* the start of reassembly, still Streaming; nothing follows Terminated.   *)
(***************************************************************************)
C11_Step ==
    /\ (Terminated' /\ ~Terminated) =>
          \/ pc = "recv" /\ result' <= 0 /\ reads' = reads + 1
          \/ pc \in {"udp_socket", "tcp_socket"} /\ socks' # {"udp", "tcp"}
    /\ (Connecting \/ Streaming) =>
          \/ Connecting' \/ Streaming'
          \/ LinkLost' /\ exit_status' = 1
    /\ (pc = "validate" /\ ~Passes(buffer)) =>
          /\ pc' = "recv"
          /\ bytes_read' = 0
          /\ exit_status' = -1
          /\ tx' = tx
    /\ Terminated => UNCHANGED vars

C11_Amended ==
    /\ [](pc \in {"udp_socket", "tcp_socket", "connect", "recv", "validate",
                  "send", "done"})
    /\ []((Connecting \/ Streaming) => exit_status = -1)
    /\ [](Terminated => exit_status = 1)
    /\ [][C11_Step]_vars

C11_Witness ==
    /\ LinkLost
    /\ Decided = 2
    /\ Outcome(1) = "sync error"
    /\ Outcome(2) = "checksum mismatch"
    /\ tx = <<>>

(***************************************************************************)
(* Runs in which the program's own steps are taken: a connect() that can   *)
(* succeed eventually does, and validation, encoding and the return of     *)
(* sendto are not put off for ever (straight-line code of one thread).     *)
(* Nothing is assumed of recv: the upstream may stall.                     *)
(***************************************************************************)
InitLive == InitWith(Sensors(NumPackets), {204})

Fairness ==
    /\ WF_vars(ConnectOk)
    /\ WF_vars(SyncError)
    /\ WF_vars(ChecksumError)
    /\ WF_vars(Encode)
    /\ WF_vars(SendOk \/ SendFail)

SpecLive == InitLive /\ [][Next]_vars /\ Fairness

(***************************************************************************)
(* C12: a failed connect() is followed by another attempt and never by the *)
(* end of the program, however many fail; no stream byte is read and no    *)
(* frame is sent before a connect() has succeeded; and when an attempt     *)
(* succeeds in the end, the engine gets to Streaming.                      *)
(***************************************************************************)
HasConnected == \E i \in DOMAIN log : log[i][1] = "connected"

C12_Step ==
    /\ Connecting => (Connecting' \/ pc' = "recv")
    /\ (Connecting /\ connect_fails' # connect_fails) =>
          /\ Connecting'
          /\ connect_fails' = connect_fails + 1
          /\ Last(log') = <<"waiting">>
          /\ exit_status' = -1
    /\ (~Streaming /\ Streaming') =>
          /\ Connecting
          /\ connect_fails' = connect_fails
          /\ HasConnected'

C13_Step ==
    pc = "recv" =>
        \/ /\ result' <= 0
           /\ Terminated'
        \/ /\ result' >= 1
           /\ pos' = pos + result'
           /\ pos' <= Len(stream)
           /\ bytes_read' = bytes_read + result'
           /\ \A i \in 1..bytes_read : buffer'[i] = buffer[i]
           /\ tx' = tx
           /\ log' = log
           /\ exit_status' = -1
           /\ Streaming'

C13_StallBlocks ==
    /\ [](pc = "recv" => (exit_status = -1 /\ bytes_read < PACKET_LEN))
    /\ []((pc = "recv" /\ pos = Len(stream)) => ~ ENABLED RecvData)
    /\ [][C13_Step]_vars

C13_Witness ==
    /\ pc = "recv"
    /\ bytes_read = 3
    /\ reads = 2
    /\ result = 1
    /\ Len(tx) = 1

(***************************************************************************)
(* Runs on a skewed stream: well-formed packets from which one byte of the *)
(* first two packets was lost on the way, or before which one stray byte   *)
(* was put in.                                                             *)
(***************************************************************************)
RemoveAt(s, d) == SubSeq(s, 1, d - 1) \o SubSeq(s, d + 1, Len(s))
InsertAt(s, d, b) == SubSeq(s, 1, d - 1) \o <<b>> \o SubSeq(s, d, Len(s))

Skewed(s) == {RemoveAt(s, d) : d \in 1..(2 * PACKET_LEN)}
             \cup {InsertAt(s, d, 0) : d \in 1..(2 * PACKET_LEN)}

WellFormed ==
    {[enc |-> "mock", voltage_mv |-> r[1], temp_c |-> r[2], damage |-> NoDamage] :
        r \in {<<3100, 45>>, <<3099, 61>>}}

RECURSIVE WellFormedRuns(_)
WellFormedRuns(n) ==
    IF n = 0 THEN {<<>>}
    ELSE {<<d>> \o s : d \in WellFormed, s \in WellFormedRuns(n - 1)}

InitSkew ==
    /\ pc = "udp_socket"
    /\ socks = {}
    /\ connect_fails = 0
    /\ sensor \in WellFormedRuns(NumPackets + 2)
    /\ stream \in Skewed(WireAll(sensor))
    /\ pos = 0
    /\ buffer = [i \in 1..PACKET_LEN |-> 204]
    /\ frame = [can_id |-> 204 * 65793, dlc |-> 204, data |-> [i \in 1..8 |-> 204]]
    /\ bytes_read = 0
    /\ result = 0
    /\ reads = 0
    /\ reading = NoReading
    /\ tx = <<>>
    /\ log = Banner
    /\ exit_status = -1

SpecSkew == InitSkew /\ [][Next]_vars

(***************************************************************************)
(* C14: every cycle that finishes has consumed exactly five bytes, valid   *)
(* window or not, so each cycle starts at a multiple of five; after one    *)
(* byte is lost from (or added to) a stream of well-formed packets, every  *)
(* window read behind that point lies across two packets, one byte late    *)
(* (or early), and stays so for the rest of the connection.                *)
(***************************************************************************)
Orig == WireAll(sensor)
Shift == Len(stream) - Len(Orig)

\* the first place where the stream is not the packets as sent
SkewPoint ==
    CHOOSE j \in 1..(Len(stream) + 1) :
        /\ j > Len(stream) \/ j > Len(Orig) \/ stream[j] # Orig[j]
        /\ \A i \in 1..(j - 1) : stream[i] = Orig[i]

\* the cycles that have printed their line
CyclesDone ==
    Cardinality({i \in DOMAIN log :
        log[i][1] \in {"sync error", "checksum mismatch", "rx->tx"}})

C14_FixedAlignment ==
    /\ (pc = "recv" /\ bytes_read = 0) => pos % PACKET_LEN = 0
    /\ Streaming =>
          /\ (pos - bytes_read) % PACKET_LEN = 0
          /\ PACKET_LEN * CyclesDone = pos - bytes_read
    /\ (pc = "validate" /\ pos - PACKET_LEN >= SkewPoint) =>
          LET first == pos - PACKET_LEN + 1 - Shift
              last  == pos - Shift
          IN  /\ last <= Len(Orig)
              /\ buffer = [i \in 1..PACKET_LEN |-> Orig[first + i - 1]]
              /\ (first - 1) \div PACKET_LEN # (last - 1) \div PACKET_LEN
              /\ (first - 1) % PACKET_LEN = (PACKET_LEN - Shift) % PACKET_LEN

C14_Witness ==
    /\ Shift = -1
    /\ pc = "validate"
    /\ pos = 3 * PACKET_LEN
    /\ SkewPoint <= PACKET_LEN
    /\ buffer[1] # 170
    /\ buffer[5] = 170
    /\ Outcome(2) = "sync error"

(***************************************************************************)
(* C15: what a cycle does with its window depends on the five bytes of     *)
(* that window alone.  The line it prints and, for a window that passes,   *)
(* the 13 bytes handed to sendto are the values of two fixed functions of  *)
(* the window, whatever the earlier windows were, however the bytes came   *)
(* in, and whatever the reused buffer and frame struct held before; so two *)
(* runs that reach the same window give the same outcome and frame.        *)
(***************************************************************************)
\* the whole line the k-th cycle printed
LineOf(k) == log[(CHOOSE i \in BridgeStart : TRUE) + k]

WindowStatus(w) ==
    IF w[4] > 60 THEN 2
    ELSE IF w[2] * 256 + w[3] < 3100 THEN 1
    ELSE 0

WindowLine(w) ==
    IF w[1] # 170 THEN <<"sync error", w[1]>>
    ELSE IF w[5] # (170 + w[2] + w[3] + w[4]) % 256
         THEN <<"checksum mismatch">>
         ELSE <<"rx->tx", w[2] * 256 + w[3], w[4], WindowStatus(w)>>

WindowFrame(w) ==
    <<0, 1, 0, 0, 8, w[2], w[3], w[4], WindowStatus(w), 0, 0, 0, 0>>

C15_WindowOnly ==
    /\ \A k \in 1..Decided : LineOf(k) = WindowLine(WindowAt(k))
    /\ \A j \in DOMAIN tx :
          \A k \in 1..Decided :
              MadeFrom(j, k) => tx[j].bytes = WindowFrame(WindowAt(k))
    /\ pc = "send" => Serialize(frame) = WindowFrame(buffer)
    /\ (pc = "recv" /\ reads = 0) => bytes_read = 0

\* a normal window forwarded after a critical one, having come in in pieces
\* into the buffer and the struct that held the critical frame
C15_Witness ==
    /\ pc = "send"
    /\ Decided = 1
    /\ reads > 1
    /\ Len(tx) = 1
    /\ tx[1].bytes[9] = 2
    /\ tx[1].bytes # Serialize(frame)
    /\ Serialize(frame)[9] = 0

(***************************************************************************)
(* C16: a window that fails a check gets one warning and no more, and the  *)
(* sync byte is looked at first: byte 0 other than 0xAA gives the sync     *)
(* warning alone, also when the checksum is wrong too; byte 0 = 0xAA with  *)
(* a wrong checksum gives the checksum warning alone; a window that passes *)
(* gives neither.                                                          *)
(***************************************************************************)
Warnings == {"sync error", "checksum mismatch"}

WarningsLogged(tag) ==
    Cardinality({i \in DOMAIN log : log[i][1] = tag})

\* the lines a step adds to the log
NewLines == SubSeq(log', Len(log) + 1, Len(log'))

C16_Step ==
    /\ Len(log') >= Len(log)
    /\ \A i \in DOMAIN log : log'[i] = log[i]
    /\ pc # "validate" =>
          \A i \in DOMAIN NewLines : NewLines[i][1] \notin Warnings
    /\ (pc = "validate" /\ pc' # "validate") =>
          NewLines = IF buffer[1] # 170 THEN << <<"sync error", buffer[1]>> >>
                     ELSE IF ~Passes(buffer) THEN << <<"checksum mismatch">> >>
                     ELSE << >>

C16_OneDiagnostic ==
    /\ [](WarningsLogged("sync error") =
             Cardinality({k \in 1..Decided : WindowAt(k)[1] # 170}))
    /\ [](WarningsLogged("checksum mismatch") =
             Cardinality({k \in 1..Decided :
                 WindowAt(k)[1] = 170 /\ ~Passes(WindowAt(k))}))
    /\ [][C16_Step]_vars

\* a window wrong in both ways, then one wrong in its checksum only
C16_Witness ==
    /\ Decided = 2
    /\ WindowAt(1)[1] # 170
    /\ WindowAt(1)[5] # (170 + WindowAt(1)[2] + WindowAt(1)[3] + WindowAt(1)[4]) % 256
    /\ WindowAt(2)[1] = 170
    /\ ~Passes(WindowAt(2))
    /\ WarningsLogged("sync error") = 1
    /\ WarningsLogged("checksum mismatch") = 1
    /\ tx = <<>>

(***************************************************************************)
(* C17: every frame handed to sendto agrees with itself: with v = data[0]  *)
(* * 256 + data[1] and t = data[2] read back from the frame, data[3] is    *)
(* 0x02 if t > 60, else 0x01 if v < 3100, else 0x00; v is in 0..65535 and  *)
(* is bytes 1 and 2 of the window, high byte first, and is the voltage the *)
(* gateway classified and printed.                                         *)
(***************************************************************************)
FrameVoltage(b) == b[6] * 256 + b[7]
FrameTemp(b) == b[8]
FrameStatus(b) == b[9]

SelfConsistent(b) ==
    /\ FrameVoltage(b) \in 0..65535
    /\ FrameStatus(b) = IF FrameTemp(b) > 60 THEN 2
                        ELSE IF FrameVoltage(b) < 3100 THEN 1
                        ELSE 0

C17_SelfConsistent ==
    /\ \A j \in DOMAIN tx :
          /\ SelfConsistent(tx[j].bytes)
          /\ \E k \in 1..Decided :
                /\ MadeFrom(j, k)
                /\ FrameVoltage(tx[j].bytes) = WindowAt(k)[2] * 256 + WindowAt(k)[3]
                /\ LineOf(k) = <<"rx->tx", FrameVoltage(tx[j].bytes),
                                 FrameTemp(tx[j].bytes), FrameStatus(tx[j].bytes)>>
    /\ pc = "send" =>
          /\ SelfConsistent(Serialize(frame))
          /\ reading.voltage_mv = buffer[2] * 256 + buffer[3]
          /\ reading.voltage_mv = FrameVoltage(Serialize(frame))

\* a frame just under the voltage limit whose two voltage bytes, swapped,
\* would read above it
C17_Witness ==
    /\ Len(tx) = 1
    /\ FrameVoltage(tx[1].bytes) = 3099
    /\ tx[1].bytes[7] * 256 + tx[1].bytes[6] >= 3100
    /\ FrameTemp(tx[1].bytes) = 60
    /\ FrameStatus(tx[1].bytes) = 1

(***************************************************************************)
(* C18: a window that passes both checks is followed, within the same      *)
(* cycle and before any further byte is read, by one call of sendto with   *)
(* the frame made from it, and then the next cycle starts; so the frames   *)
(* go out in the order their windows came in, none left out and none sent  *)
(* twice.                                                                  *)
(***************************************************************************)
\* the windows that passed, in the order they were read
RECURSIVE PassedUpTo(_)
PassedUpTo(k) ==
    IF k = 0 THEN <<>>
    ELSE IF Passes(WindowAt(k)) THEN Append(PassedUpTo(k - 1), WindowAt(k))
    ELSE PassedUpTo(k - 1)

C18_Step ==
    /\ pos' # pos => (pc = "recv" /\ tx' = tx)
    /\ tx' # tx =>
          /\ pc = "send" /\ pc' = "recv"
          /\ Len(tx') = Len(tx) + 1
          /\ SubSeq(tx', 1, Len(tx)) = tx
          /\ Last(tx').bytes = WindowFrame(buffer)
          /\ pos' = pos /\ bytes_read' = 0
    /\ (pc = "validate" /\ Passes(buffer)) => pc' \in {"validate", "send"}
    /\ pc = "send" => (pc' = "send" \/ Len(tx') = Len(tx) + 1)

WindowEnds == {PACKET_LEN * k : k \in 1..NumPackets}

C18_LiveInOrder ==
    /\ [](Len(tx) = Len(PassedUpTo(Decided)))
    /\ [](\A j \in DOMAIN tx : tx[j].bytes = WindowFrame(PassedUpTo(Decided)[j]))
    /\ [][C18_Step]_vars
    /\ \A p \in WindowEnds :
          (pc = "validate" /\ Passes(buffer) /\ pos = p) ~>
              (/\ pc = "recv" /\ bytes_read = 0 /\ pos = p
               /\ tx # <<>>
               /\ Len(tx) = Len(PassedUpTo(p \div PACKET_LEN))
               /\ Last(tx).bytes = WindowFrame(WindowAt(p \div PACKET_LEN)))

\* two different windows forwarded in their order around one that was not
C18_Witness ==
    /\ pc = "recv" /\ bytes_read = 0
    /\ Decided = NumPackets
    /\ Len(tx) = 2
    /\ tx[1].bytes = WindowFrame(WindowAt(1))
    /\ tx[2].bytes = WindowFrame(WindowAt(2))
    /\ tx[1].bytes # tx[2].bytes

(***************************************************************************)
(* C19: data goes one way.  The datagram socket is only written to: the    *)
(* buffer is filled from the stream socket alone, and all that comes back  *)
(* from the datagram side is the value sendto returns, which is not looked *)
(* at; so whether a datagram was taken, dropped or refused, the gateway    *)
(* goes on from the same state and the frames it sends later are the same. *)
(***************************************************************************)
\* the state the gateway itself can see: tx, the record of what went out and
\* how sendto answered, is not part of it
GatewayState ==
    <<pc, socks, connect_fails, pos, buffer, bytes_read, result, reads,
      reading, frame, log, exit_status>>

\* the gateway state after the send step, which has one value for both answers
AfterSendState ==
    <<"recv", socks, connect_fails, pos, buffer, 0, 0, 0, NoReading, frame,
      Append(log, <<"rx->tx", reading.voltage_mv, reading.temp, reading.status>>),
      exit_status>>

C19_Step ==
    /\ pc = "send" =>
          /\ GatewayState' = AfterSendState
          /\ \E ok \in BOOLEAN :
                tx' = Append(tx, [bytes |-> Serialize(frame), ok |-> ok])
    /\ pc # "send" => tx' = tx
    /\ buffer' # buffer =>
          /\ pc = "recv" /\ result' > 0
          /\ \A i \in 1..PACKET_LEN :
                buffer'[i] = IF i \in (bytes_read + 1)..(bytes_read + result')
                             THEN stream[pos + i - bytes_read]
                             ELSE buffer[i]
    /\ UNCHANGED <<sensor, stream>>

C19_OneWay ==
    /\ [](Streaming => socks = {"udp", "tcp"})
    /\ [](FailedSends # {} =>
             \A j \in DOMAIN tx : tx[j].bytes = WindowFrame(PassedUpTo(Decided)[j]))
    /\ [][C19_Step]_vars

\* two datagrams refused one after the other, the second as it should be
C19_Witness ==
    /\ pc = "recv" /\ bytes_read = 0
    /\ Len(tx) = 2
    /\ ~tx[1].ok /\ ~tx[2].ok
    /\ tx[1].bytes # tx[2].bytes
    /\ tx[2].bytes = WindowFrame(WindowAt(2))
    /\ Outcome(2) = "rx->tx"

====
